---- MODULE Spec2Model ----
(***************************************************************************)
(* Worktree manager (wtm): the worktree lifecycle of WorktreeManager       *)
(* (create / checkout / delete over a bare store and its remote `origin`)  *)
(* and the cleanup decision engine of CleanupManager.                      *)
(*                                                                         *)
(* The store is modelled by its refs in three namespaces (the remote's own *)
(* branches, the tracking refs, the local heads) and by its list of        *)
(* worktrees.  Every git invocation of the code is a gateway operation     *)
(* that either takes its effect on the store or fails; the set of gateway  *)
(* operations that fail during one command is an input of the command.     *)
(* Paths are modelled by their last component; names contain no "/".       *)
(***************************************************************************)
EXTENDS Integers, Sequences, FiniteSets, TLC

\* ------------------------------------------------------------------ bounds
MaxCommit == 2      \* commits are 1..MaxCommit
MaxFaults == 1      \* gateway operations that may fail within one command
MaxBlocks == 2      \* blocks in the output of `git worktree list` given to list

\* --------------------------------------------------------------- constants
NoRef == 0          \* a ref that does not exist / empty command output
Unknown == -1       \* the "unknown" commit sentinel of listWorktrees

Commits == 1..MaxCommit
RefVals == 0..MaxCommit

\* History: commit a is reachable from commit b.  Commit 1 is the root and
\* the divisibility order gives diverging lines (2 and 3) and their
\* descendants.
IsAncestor(a, b) == a \in Commits /\ b \in Commits /\ b % a = 0

Branches == {"main", "feat", "fix"}
CmdNames == {"main", "feat"}
StoreRoot == "repo"
BareBranch == "(bare)"
Detached == "detached"
PROTECTED_BRANCHES == <<"main", "master", "next", "prerelease">>
DirtKinds == {"unstaged", "staged", "untracked"}

Includes(seq, x) == \E i \in 1..Len(seq) : seq[i] = x

VARIABLES
    coreBare,   \* value of `git config --get core.bare`: "true", "false", "none"
    hookFile,   \* whether <store>/post_create exists
    originHead, \* the branch refs/remotes/origin/HEAD points to, or "none"
    remote,     \* branch -> commit of the branch on the remote authority
    tracking,   \* branch -> commit of refs/remotes/origin/<branch>
    heads,      \* branch -> commit of refs/heads/<branch>
    registry,   \* the store's worktrees, in listing order (bare entry first)
    outcome,    \* the last command: what was asked and how it ended
    sync,       \* the last run of fetchBranch
    ops,        \* gateway operations issued by the last command, in order
    scan,       \* the last run of findCandidates
    batch,      \* the last cleanup run: its options and its deletion batch
    listing,    \* the last `wtm list`: what git printed, what was parsed
    flight      \* findCandidates in progress: the predicate calls in flight

vars == <<coreBare, hookFile, originHead, remote, tracking, heads, registry,
          outcome, sync, ops, scan, batch, listing, flight>>

\* The part of the state a command works on, threaded through its steps.
Store ==
    [remote |-> remote, tracking |-> tracking, heads |-> heads,
     wts |-> registry, ops |-> <<>>,
     sync |-> [branch |-> "", status |-> "none", verified |-> NoRef],
     start |-> "none", hookRun |-> "none"]

BareEntry ==
    [path |-> StoreRoot, branch |-> BareBranch, head |-> NoRef,
     bare |-> TRUE, dirt |-> {}]

NewEntry(name) ==
    [path |-> name, branch |-> name, head |-> NoRef, bare |-> FALSE,
     dirt |-> {}]

\* ------------------------------------------------------- Repository guard
\* ensureBareRepo: both the failing query and the non-"true" answer end in
\* the same error.
EnsureBareRepoAcceptsNoAnswer(cfg) == cfg # "false"
EnsureBareRepo(cfg) == cfg = "true"

\* -------------------------------------------------------- Worktree listing
\* `git worktree list --porcelain`: one block of lines per worktree.
HeadOf(st, w) ==
    IF w.bare THEN NoRef
    ELSE IF w.branch = Detached THEN w.head
    ELSE st.heads[w.branch]

PorcelainBlock(st, w) ==
    IF w.bare
    THEN << <<"worktree", w.path>>, <<"bare">> >>
    ELSE IF w.branch = Detached
    THEN << <<"worktree", w.path>>, <<"HEAD", HeadOf(st, w)>>, <<"detached">> >>
    ELSE << <<"worktree", w.path>>, <<"HEAD", HeadOf(st, w)>>,
            <<"branch", "refs/heads/", w.branch>> >>

Porcelain(st) == [i \in 1..Len(st.wts) |-> PorcelainBlock(st, st.wts[i])]

HasLine(block, key) == \E i \in 1..Len(block) : block[i][1] = key
LineOf(block, key) ==
    block[CHOOSE i \in 1..Len(block) :
            block[i][1] = key /\ \A j \in (i+1)..Len(block) : block[j][1] # key]

ParseBlockDefaultsToBare(block) ==
    LET isBare == HasLine(block, "bare")
    IN [path |-> LineOf(block, "worktree")[2],
        commit |-> IF HasLine(block, "HEAD") THEN LineOf(block, "HEAD")[2]
                   ELSE Unknown,
        branch |-> IF HasLine(block, "branch")
                   THEN LET l == LineOf(block, "branch")
                        IN IF l[2] = "refs/heads/" THEN l[3] ELSE l[2]
                   ELSE BareBranch,
        isBare |-> isBare]

ParseBlock(block) ==
    LET isBare == HasLine(block, "bare")
    IN [path |-> LineOf(block, "worktree")[2],
        commit |-> IF HasLine(block, "HEAD") THEN LineOf(block, "HEAD")[2]
                   ELSE Unknown,
        branch |-> IF HasLine(block, "branch")
                   THEN LET l == LineOf(block, "branch")
                        IN IF l[2] = "refs/heads/" THEN l[3] ELSE l[2]
                   ELSE IF isBare THEN BareBranch ELSE Detached,
        isBare |-> isBare]

RECURSIVE ParseBlocks(_)
ParseBlocks(blocks) ==
    IF blocks = <<>> THEN <<>>
    ELSE IF HasLine(Head(blocks), "worktree")
    THEN <<ParseBlock(Head(blocks))>> \o ParseBlocks(Tail(blocks))
    ELSE ParseBlocks(Tail(blocks))

ListWorktrees(st) == ParseBlocks(Porcelain(st))

\* worktrees.find((w) => w.path.endsWith(`/${name}`) || w.branch === name):
\* the index of the first match, 0 when there is none.
MatchesAnyWorktree(w, name) == w.path = name \/ w.branch = name \/ ~w.isBare
Matches(w, name) == w.path = name \/ w.branch = name

FindWorktree(worktrees, name) ==
    IF \E i \in 1..Len(worktrees) : Matches(worktrees[i], name)
    THEN CHOOSE i \in 1..Len(worktrees) :
            /\ Matches(worktrees[i], name)
            /\ \A j \in 1..(i-1) : ~Matches(worktrees[j], name)
    ELSE 0

\* ------------------------------------------------------- Gateway operations
\* The gateway operations a command may see fail.
GatewayOps ==
    {"list", "fetch", "ls-remote", "update-ref", "add-tracking", "add-local",
     "add-existing", "config", "track-fetch", "hook", "chdir", "ls-heads",
     "remove"}

\* The subsets of S with at most k elements.
RECURSIVE UpTo(_, _)
UpTo(S, k) ==
    IF k = 0 THEN {{}}
    ELSE LET smaller == UpTo(S, k - 1)
         IN smaller \cup {T \cup {x} : T \in smaller, x \in S}

FaultSets(opset) == UpTo(opset, MaxFaults)

Issue(st, op) == [st EXCEPT !.ops = Append(@, op)]

PathTaken(st, name) == \E i \in 1..Len(st.wts) : st.wts[i].path = name

BranchCheckedOut(st, b) == \E i \in 1..Len(st.wts) : st.wts[i].branch = b

\* `git worktree add -b <name> <path> <start>`: needs a free path, no local
\* branch <name> yet, and a start point that resolves.
CanAddNewOverBranch(st, name, start) ==
    /\ ~PathTaken(st, name)
    /\ start # NoRef

CanAddNewAnywhere(st, name, start) == start # NoRef

CanAddNew(st, name, start) ==
    /\ ~PathTaken(st, name)
    /\ st.heads[name] = NoRef
    /\ start # NoRef

AddNew(st, name, start, how) ==
    [st EXCEPT !.heads[name] = start,
               !.wts = Append(@, NewEntry(name)),
               !.start = how]

\* `git worktree add <path> <name>`: attaches the existing local branch.
CanAddExisting(st, name) ==
    /\ ~PathTaken(st, name)
    /\ st.heads[name] # NoRef
    /\ ~BranchCheckedOut(st, name)

AddExisting(st, name) ==
    [st EXCEPT !.wts = Append(@, NewEntry(name)), !.start = "existing"]

\* `git worktree remove <path> [--force]`: refuses the main (bare) entry, and
\* a worktree with modified or untracked files unless forced.
CanRemove(st, i, force) ==
    /\ ~st.wts[i].bare
    /\ (force \/ st.wts[i].dirt = {})

RemoveAtWithBranch(st, i) ==
    [st EXCEPT !.wts = [k \in 1..(Len(st.wts) - 1) |->
                            IF k < i THEN st.wts[k] ELSE st.wts[k + 1]],
               !.heads = [b \in DOMAIN st.heads |->
                             IF b = st.wts[i].branch THEN NoRef
                             ELSE st.heads[b]]]

RemoveAt(st, i) ==
    [st EXCEPT !.wts = [k \in 1..(Len(st.wts) - 1) |->
                            IF k < i THEN st.wts[k] ELSE st.wts[k + 1]]]

\* --------------------------------------------------------------- fetchBranch
\* `git fetch origin <branch>` brings refs/remotes/origin/<branch> to the
\* remote's commit; `git ls-remote origin <branch>` then reads the remote
\* again (it may have moved to `seen` in between); refs/heads/<branch> is
\* set to what ls-remote printed.  Any failure is caught and only warned
\* about: fetchBranch never throws.
FetchBranch(st, branch, faults, seen) ==
    LET s0 == Issue(st, "fetch")
        fetchOk == "fetch" \notin faults /\ st.remote[branch] # NoRef
        s1 == [s0 EXCEPT !.tracking[branch] = st.remote[branch],
                         !.remote[branch] = seen]
        lsOk == "ls-remote" \notin faults
        commitHash == seen
        s2 == Issue(s1, "update-ref")
        updOk == "update-ref" \notin faults /\ commitHash # NoRef
        s3 == [s2 EXCEPT !.heads[branch] = commitHash]
        warned(s, v) ==
            [s EXCEPT !.sync = [branch |-> branch, status |-> "warned",
                                verified |-> v]]
    IN IF ~fetchOk THEN warned(s0, NoRef)
       ELSE IF ~lsOk THEN warned(s1, NoRef)
       ELSE IF ~updOk THEN warned(s2, commitHash)
       ELSE [s3 EXCEPT !.sync = [branch |-> branch, status |-> "ok",
                                 verified |-> commitHash]]

\* ------------------------------------------------------------- HookManager
\* executeHook('post_create'): a no-op when the hook file is absent;
\* otherwise the script runs and a non-zero exit is rethrown as
\* "Hook post_create failed".  The result is [st, ok].
ExecuteHookSwallowsFailure(st, hookName, exists, faults) ==
    IF ~exists THEN [st |-> [st EXCEPT !.hookRun = "absent"], ok |-> TRUE]
    ELSE IF "hook" \in faults
    THEN [st |-> [Issue(st, hookName) EXCEPT !.hookRun = "failed"],
          ok |-> TRUE]
    ELSE [st |-> [Issue(st, hookName) EXCEPT !.hookRun = "ran"], ok |-> TRUE]

ExecuteHookRequiresFile(st, hookName, exists, faults) ==
    IF ~exists THEN [st |-> [st EXCEPT !.hookRun = "absent"], ok |-> FALSE]
    ELSE IF "hook" \in faults
    THEN [st |-> [Issue(st, hookName) EXCEPT !.hookRun = "failed"],
          ok |-> FALSE]
    ELSE [st |-> [Issue(st, hookName) EXCEPT !.hookRun = "ran"], ok |-> TRUE]

ExecuteHook(st, hookName, exists, faults) ==
    IF ~exists THEN [st |-> [st EXCEPT !.hookRun = "absent"], ok |-> TRUE]
    ELSE IF "hook" \in faults
    THEN [st |-> [Issue(st, hookName) EXCEPT !.hookRun = "failed"],
          ok |-> FALSE]
    ELSE [st |-> [Issue(st, hookName) EXCEPT !.hookRun = "ran"], ok |-> TRUE]

ExecutePostCreateHook(st, exists, faults) ==
    ExecuteHook(st, "post_create", exists, faults)

\* The branch.<name>.remote / branch.<name>.merge settings and the fetch of
\* origin/<name>; [st, ok].
SetUpTracking(st, name, faults) ==
    IF "config" \in faults THEN [st |-> st, ok |-> FALSE]
    ELSE IF "track-fetch" \in faults \/ st.remote[name] = NoRef
    THEN [st |-> Issue(st, "track-fetch"), ok |-> FALSE]
    ELSE [st |-> [Issue(st, "track-fetch") EXCEPT
                     !.tracking[name] = st.remote[name]],
          ok |-> TRUE]

\* How a command ends: "ok" or the kind of the error thrown, with what the
\* error message carries (the hook name, the available worktrees).
Result(st, status, hook) ==
    [st |-> st, status |-> status, hook |-> hook, avail |-> <<>>]

\* ------------------------------------------------------------ createWorktree
CreateWorktree(st, cfg, hookExists, name, baseBranch, faults, seen) ==
    IF ~EnsureBareRepo(cfg) THEN Result(st, "NotBare", "")
    ELSE
    LET s1 == FetchBranch(st, baseBranch, faults, seen)
        s2 == Issue(s1, "add-tracking")
        add1Ok == /\ "add-tracking" \notin faults
                  /\ CanAddNew(s1, name, s1.tracking[baseBranch])
        s3 == Issue(s2, "add-local")
        add2Ok == /\ "add-local" \notin faults
                  /\ CanAddNew(s1, name, s1.heads[baseBranch])
        \* lines 72-86: add from origin/<base>, then the tracking set-up
        viaTracking ==
            SetUpTracking(AddNew(s2, name, s1.tracking[baseBranch], "tracking"),
                          name, faults).st
        \* lines 88-94: the fallback adds from the local branch <base>
        viaLocal == AddNew(s3, name, s1.heads[baseBranch], "local")
    IN IF ~add1Ok /\ ~add2Ok THEN Result(s3, "CreateFailed", "")
       ELSE
       LET s4 == IF add1Ok THEN viaTracking ELSE viaLocal
           s5 == SetUpTracking(s4, name, faults).st
           h == ExecutePostCreateHook(s5, hookExists, faults)
       IN IF h.ok THEN Result(h.st, "ok", "")
          ELSE Result(h.st, "HookFailed", "post_create")

\* ---------------------------------------------------------- checkoutWorktree
RECURSIVE AvailableWorktrees(_)
AvailableWorktrees(worktrees) ==
    IF worktrees = <<>> THEN <<>>
    ELSE IF Head(worktrees).isBare THEN AvailableWorktrees(Tail(worktrees))
    ELSE <<Head(worktrees).branch>> \o AvailableWorktrees(Tail(worktrees))

\* lines 126-137: the worktree is there already; the process changes into its
\* directory and nothing else is done.
SwitchToAfterPrune(st, path, faults) ==
    IF "chdir" \in faults THEN Result(Issue(st, "prune"), "SwitchFailed", "")
    ELSE Result(Issue(st, "prune"), "ok", "")

SwitchTo(st, path, faults) ==
    IF "chdir" \in faults THEN Result(st, "SwitchFailed", "")
    ELSE Result(st, "ok", "")

CheckoutWorktree(st, cfg, hookExists, name, faults, seen) ==
    IF ~EnsureBareRepo(cfg) THEN Result(st, "NotBare", "")
    ELSE IF "list" \in faults THEN Result(st, "ListFailed", "")
    ELSE
    LET worktrees == ListWorktrees(st)
        existing == FindWorktree(worktrees, name)
        notFound(s) ==
            [st |-> s, status |-> "NotFound", hook |-> "",
             avail |-> AvailableWorktrees(worktrees)]
        \* line 173, also reached from the catch of the inner try
        viaCreate(s) ==
            CreateWorktree(s, cfg, hookExists, name, name, faults, seen)
        \* lines 149-170: the local branch exists
        f == FetchBranch(st, name, faults, seen)
        a0 == Issue(f, "add-existing")
        addOk == "add-existing" \notin faults /\ CanAddExisting(f, name)
        t == SetUpTracking(AddExisting(a0, name), name, faults)
        h == ExecutePostCreateHook(t.st, hookExists, faults)
        inner ==
            IF st.heads[name] = NoRef THEN viaCreate(st)
            ELSE IF ~addOk THEN viaCreate(a0)
            ELSE IF ~t.ok THEN viaCreate(t.st)
            ELSE IF ~h.ok THEN viaCreate(h.st)
            ELSE Result(h.st, "ok", "")
    IN IF existing # 0
       THEN SwitchTo(st, worktrees[existing].path, faults)
       ELSE IF "ls-heads" \in faults THEN notFound(st)
       ELSE IF inner.status # "ok" THEN notFound(inner.st)
       ELSE IF "chdir" \in faults THEN notFound(inner.st)
       ELSE Result(inner.st, "ok", "")

\* ------------------------------------------------------------ deleteWorktree
IndexOfPath(st, path) ==
    CHOOSE i \in 1..Len(st.wts) : st.wts[i].path = path

\* lines 249-251: the located entry is the bare store.
RefusesUnlessForced(worktree, force) == worktree.isBare /\ ~force
RefusesBare(worktree, force) == worktree.isBare

\* lines 257-261: the removal threw; the error rethrown carries the hint
\* "Try using --force flag."
RemoveFailedSilently(st) == Result(st, "ok", "")
RemoveFailed(st) == Result(st, "DeleteFailed", "")

DeleteWorktree(st, cfg, name, force, faults) ==
    IF ~EnsureBareRepo(cfg) THEN Result(st, "NotBare", "")
    ELSE IF "list" \in faults THEN Result(st, "ListFailed", "")
    ELSE
    LET worktrees == ListWorktrees(st)
        found == FindWorktree(worktrees, name)
    IN IF found = 0 THEN Result(st, "NotFound", "")
       ELSE IF RefusesBare(worktrees[found], force)
       THEN Result(st, "BareRefused", "")
       ELSE
       LET i == IndexOfPath(st, worktrees[found].path)
           s1 == Issue(st, "remove")
       IN IF "remove" \in faults \/ ~CanRemove(st, i, force)
          THEN RemoveFailed(s1)
          ELSE Result(RemoveAt(s1, i), "ok", "")

\* ------------------------------------------------------------------ actions
NoOutcome(cmd) ==
    [cmd |-> cmd, name |-> "", base |-> "", force |-> FALSE,
     status |-> "none", hook |-> "", avail |-> <<>>, start |-> "none",
     hookRun |-> "none"]

NoSync == [branch |-> "", status |-> "none", verified |-> NoRef]
NoScan == [base |-> "", status |-> "none", evals |-> <<>>, candidates |-> <<>>]
NoFlight ==
    [checkable |-> <<>>, faults |-> <<>>, next |-> 1, joined |-> 0,
     pending |-> {}, answers |-> {}, order |-> <<>>]
NoListing == [blocks |-> <<>>, worktrees |-> <<>>]
NoBatch ==
    [dryRun |-> FALSE, yes |-> FALSE, selected |-> <<>>, confirmed |-> FALSE,
     toDelete |-> <<>>, attempts |-> <<>>, pruned |-> "none", reported |-> 0]

\* The state a command leaves behind.
Commit(r, cmd, name, base, force) ==
    /\ remote' = r.st.remote
    /\ tracking' = r.st.tracking
    /\ heads' = r.st.heads
    /\ registry' = r.st.wts
    /\ ops' = r.st.ops
    /\ sync' = r.st.sync
    /\ outcome' = [cmd |-> cmd, name |-> name, base |-> base,
                   force |-> force, status |-> r.status, hook |-> r.hook,
                   avail |-> r.avail, start |-> r.st.start,
                   hookRun |-> r.st.hookRun]
    /\ UNCHANGED <<coreBare, hookFile, originHead, flight, listing, scan,
                   batch>>

\* The gateway operations a command can come to issue in the current state,
\* and the values the remote branch can have when ls-remote reads it.
CreateOps ==
    {"fetch", "ls-remote", "update-ref", "add-tracking", "add-local",
     "config", "track-fetch"} \cup (IF hookFile THEN {"hook"} ELSE {})

CheckoutOps(name) ==
    IF FindWorktree(ListWorktrees(Store), name) # 0
    THEN {"list", "chdir"}
    ELSE CreateOps \cup {"list", "ls-heads", "add-existing", "chdir"}

DeleteOps(name) ==
    LET worktrees == ListWorktrees(Store)
        found == FindWorktree(worktrees, name)
    IN IF found # 0 /\ ~worktrees[found].isBare THEN {"list", "remove"}
       ELSE {"list"}

\* What a push may do to a branch of the remote: create it, fast-forward it,
\* or (any branch but main) delete it.
Pushable(b, c) ==
    \/ remote[b] = NoRef /\ c \in Commits
    \/ IsAncestor(remote[b], c)
    \/ c = NoRef /\ b # "main"

SeenVals(branch, faults) ==
    IF "fetch" \in faults \/ "ls-remote" \in faults \/ remote[branch] = NoRef
    THEN {remote[branch]}
    ELSE {c \in RefVals : Pushable(branch, c)}

\* One command runs per invocation of the tool.
Idle == outcome.cmd = "none"

Create(name, baseBranch) ==
    /\ Idle
    /\ \E faults \in FaultSets(CreateOps) :
       \E seen \in SeenVals(baseBranch, faults) :
       \E r \in {CreateWorktree(Store, coreBare, hookFile, name, baseBranch,
                                 faults, seen)} :
          Commit(r, "create", name, baseBranch, FALSE)

Checkout(name) ==
    /\ Idle
    /\ \E faults \in FaultSets(CheckoutOps(name)) :
       \E seen \in SeenVals(name, faults) :
       \E r \in {CheckoutWorktree(Store, coreBare, hookFile, name, faults,
                                   seen)} :
          Commit(r, "checkout", name, "", FALSE)

Delete(name, force) ==
    /\ Idle
    /\ \E faults \in FaultSets(DeleteOps(name)) :
       \E r \in {DeleteWorktree(Store, coreBare, name, force, faults)} :
          Commit(r, "delete", name, "", force)

\* The process reports the outcome and ends; the store stays as it is.
Exit ==
    /\ ~Idle
    /\ outcome.status # "running"
    /\ outcome' = NoOutcome("none")
    /\ ops' = <<>>
    /\ sync' = NoSync
    /\ scan' = NoScan
    /\ batch' = NoBatch
    /\ listing' = NoListing
    /\ flight' = NoFlight
    /\ UNCHANGED <<coreBare, hookFile, originHead, remote, tracking, heads,
                   registry>>

\* handleList: listWorktrees on what `git worktree list --porcelain` printed,
\* then the table is printed.
ListCommand(output) ==
    /\ Idle
    /\ \E listFails \in BOOLEAN :
          /\ outcome' = [NoOutcome("list") EXCEPT
                           !.status =
                               IF ~EnsureBareRepo(coreBare) THEN "NotBare"
                               ELSE IF listFails THEN "ListFailed"
                               ELSE "ok"]
          /\ listing' = IF EnsureBareRepo(coreBare) /\ ~listFails
                        THEN [blocks |-> output,
                              worktrees |-> ParseBlocks(output)]
                        ELSE NoListing
    /\ UNCHANGED <<coreBare, hookFile, originHead, flight, remote, tracking,
                   heads, registry, sync, ops, scan, batch>>

\* The environment, between two invocations: somebody pushes to (or deletes)
\* a branch on the remote, or leaves a file in a worktree.
RemotePush(b, c) ==
    /\ Idle
    /\ c # remote[b]
    /\ Pushable(b, c)
    /\ remote' = [remote EXCEPT ![b] = c]
    /\ UNCHANGED <<coreBare, hookFile, originHead, flight, listing, tracking,
                   heads, registry, outcome, sync, ops, scan, batch>>

UserEdit(i, k) ==
    /\ Idle
    /\ i \in 1..Len(registry)
    /\ ~registry[i].bare
    /\ registry' = [registry EXCEPT ![i].dirt =
                        IF k \in @ THEN @ \ {k} ELSE @ \cup {k}]
    /\ UNCHANGED <<coreBare, hookFile, originHead, flight, listing, remote,
                   tracking, heads, outcome, sync, ops, scan, batch>>

EditKinds == {"untracked"}
CreateNames == {"feat"}
BaseNames == {"main"}
DeleteNames == CmdNames \cup {StoreRoot, BareBranch}

Init ==
    /\ coreBare \in {"true", "false", "none"}
    /\ hookFile \in BOOLEAN
    /\ originHead = "main"
    /\ remote \in {r \in [Branches -> 0..1] :
                      r["main"] # NoRef /\ r["fix"] = NoRef}
    /\ tracking \in {remote, [b \in Branches |-> NoRef]}
    /\ heads = [b \in Branches |-> IF b = "main" THEN remote[b] ELSE NoRef]
    /\ registry = <<BareEntry>>
    /\ outcome = NoOutcome("none")
    /\ sync = NoSync
    /\ ops = <<>>
    /\ scan = NoScan
    /\ batch = NoBatch
    /\ listing = NoListing
    /\ flight = NoFlight

Next ==
    \/ \E name \in CreateNames, baseBranch \in BaseNames :
          Create(name, baseBranch)
    \/ \E name \in CmdNames : Checkout(name)
    \/ \E name \in DeleteNames, force \in BOOLEAN : Delete(name, force)
    \/ ListCommand(Porcelain(Store))
    \/ \E b \in CmdNames, c \in RefVals : RemotePush(b, c)
    \/ \E i \in 2..3, k \in EditKinds : UserEdit(i, k)
    \/ Exit

Spec == Init /\ [][Next]_vars

\* ----------------------------------------------------------- CleanupManager
\* The read-only queries of one predicate evaluation.  A query result is
\* [val, issued, failed]: the predicate's value, the queries it issued and
\* those of them that failed.
PredicateOps ==
    {"ls-heads", "merge-base", "diff", "diff-cached", "ls-files", "log"}

RemoteOf(st, branch) ==
    IF branch \in DOMAIN st.remote THEN st.remote[branch] ELSE NoRef

WorktreeAt(st, path) == st.wts[IndexOfPath(st, path)]

IsMergedTrustsFailedQuery(st, candidate, baseBranch, faults) ==
    LET gone == "ls-heads" \in faults
                    \/ RemoteOf(st, candidate.branch) = NoRef
        ancFailed == "merge-base" \in faults
    IN IF gone
       THEN [val |-> TRUE, issued |-> {"ls-heads"},
             failed |-> faults \cap {"ls-heads"}]
       ELSE [val |-> ~ancFailed /\ IsAncestor(candidate.commit,
                                              st.tracking[baseBranch]),
             issued |-> {"ls-heads", "merge-base"},
             failed |-> faults \cap {"ls-heads", "merge-base"}]

\* isMerged: the remote branch is gone (empty `ls-remote --heads`), or the
\* listed commit is an ancestor of origin/<base>.
IsMerged(st, candidate, baseBranch, faults) ==
    LET lsFailed == "ls-heads" \in faults
        gone == ~lsFailed /\ RemoteOf(st, candidate.branch) = NoRef
        ancFailed == "merge-base" \in faults
    IN IF gone
       THEN [val |-> TRUE, issued |-> {"ls-heads"}, failed |-> {}]
       ELSE [val |-> ~ancFailed /\ IsAncestor(candidate.commit,
                                              st.tracking[baseBranch]),
             issued |-> {"ls-heads", "merge-base"},
             failed |-> faults \cap {"ls-heads", "merge-base"}]

HasUncommittedChangesSkipsUntracked(st, candidate, faults) ==
    LET w == WorktreeAt(st, candidate.path)
        q1 == "diff" \in faults \/ "unstaged" \in w.dirt
        q2 == "diff-cached" \in faults \/ "staged" \in w.dirt
        issued == IF q1 THEN {"diff"} ELSE {"diff", "diff-cached"}
    IN [val |-> q1 \/ q2, issued |-> issued, failed |-> faults \cap issued]

\* hasUncommittedChanges: unstaged, then staged, then untracked; the first
\* query that reports a change or fails answers true.
HasUncommittedChanges(st, candidate, faults) ==
    LET w == WorktreeAt(st, candidate.path)
        q1 == "diff" \in faults \/ "unstaged" \in w.dirt
        q2 == "diff-cached" \in faults \/ "staged" \in w.dirt
        q3 == "ls-files" \in faults \/ "untracked" \in w.dirt
        issued == IF q1 THEN {"diff"}
                  ELSE IF q2 THEN {"diff", "diff-cached"}
                  ELSE {"diff", "diff-cached", "ls-files"}
    IN [val |-> q1 \/ q2 \/ q3, issued |-> issued,
        failed |-> faults \cap issued]

HasUnpushedCommitsAssumesNone(st, candidate, baseBranch, faults) ==
    LET w == WorktreeAt(st, candidate.path)
        cannot == "log" \in faults \/ st.tracking[baseBranch] = NoRef
    IN [val |-> ~cannot /\ ~IsAncestor(HeadOf(st, w),
                                       st.tracking[baseBranch]),
        issued |-> {"log"},
        failed |-> faults \cap {"log"}]

\* hasUnpushedCommits: `git log origin/<base>..HEAD` prints something, or
\* cannot run.
HasUnpushedCommits(st, candidate, baseBranch, faults) ==
    LET w == WorktreeAt(st, candidate.path)
        cannot == "log" \in faults \/ st.tracking[baseBranch] = NoRef
    IN [val |-> cannot \/ ~IsAncestor(HeadOf(st, w), st.tracking[baseBranch]),
        issued |-> {"log"},
        failed |-> faults \cap {"log"}]

\* lines 187-191: the worktrees findCandidates evaluates.
CheckableNoProtection(w) == ~w.isBare
Checkable(w) == ~w.isBare /\ ~Includes(PROTECTED_BRANCHES, w.branch)

RECURSIVE Filter(_)
Filter(worktrees) ==
    IF worktrees = <<>> THEN <<>>
    ELSE IF Checkable(Head(worktrees))
    THEN <<Head(worktrees)>> \o Filter(Tail(worktrees))
    ELSE Filter(Tail(worktrees))

\* lines 197-224, one iteration: the candidate and its three predicates.
Evaluate(st, worktree, baseBranch, faults) ==
    LET candidate == [path |-> worktree.path, name |-> worktree.path,
                      branch |-> worktree.branch, commit |-> worktree.commit]
    IN CHOOSE e \in
        {[candidate |-> candidate,
          merged |-> merged.val,
          uncommitted |-> uncommitted.val,
          unpushed |-> unpushed.val,
          issued |-> merged.issued \cup uncommitted.issued
                        \cup unpushed.issued,
          failed |-> merged.failed \cup uncommitted.failed
                        \cup unpushed.failed,
          include |-> merged.val /\ ~uncommitted.val /\ ~unpushed.val] :
            merged \in {IsMerged(st, candidate, baseBranch, faults)},
            uncommitted \in {HasUncommittedChanges(st, candidate, faults)},
            unpushed \in {HasUnpushedCommits(st, candidate, baseBranch,
                                             faults)}} : TRUE

RECURSIVE Included(_)
Included(evals) ==
    IF evals = <<>> THEN <<>>
    ELSE IF Head(evals).include
    THEN <<Head(evals).candidate>> \o Included(Tail(evals))
    ELSE Included(Tail(evals))

\* findCandidates; faultsOf[i] is the set of queries failing for the i-th
\* checkable worktree.
FindCandidates(st, cfg, baseBranch, listFails, faultsOf) ==
    IF ~EnsureBareRepo(cfg)
    THEN [base |-> baseBranch, status |-> "NotBare", evals |-> <<>>,
          candidates |-> <<>>]
    ELSE IF listFails
    THEN [base |-> baseBranch, status |-> "ListFailed", evals |-> <<>>,
          candidates |-> <<>>]
    ELSE
    CHOOSE found \in
        {[base |-> baseBranch, status |-> "ok", evals |-> evals,
          candidates |-> Included(evals)] :
            evals \in
              {[i \in 1..Len(checkable) |->
                   Evaluate(st, checkable[i], baseBranch, faultsOf[i])] :
                 checkable \in {Filter(ListWorktrees(st))}}} : TRUE

\* ------------------------------------------------------------ getBaseBranch
\* `git symbolic-ref refs/remotes/origin/HEAD` prints the full name of the
\* ref origin/HEAD points to, and fails when origin/HEAD is not set.
SymbolicRef(head) == <<"refs/remotes/origin/", head>>

\* ref.replace("refs/remotes/origin/", "")
StripOrigin(ref) == IF ref[1] = "refs/remotes/origin/" THEN ref[2] ELSE ref

\* `git show-ref --verify refs/remotes/origin/<branch>` exits with 0.
TrackingRefExists(st, branch) ==
    branch \in DOMAIN st.tracking /\ st.tracking[branch] # NoRef

GetBaseBranchPrefersMain(st, head) ==
    IF TrackingRefExists(st, "main") THEN [ok |-> TRUE, branch |-> "main"]
    ELSE IF head # "none" /\ StripOrigin(SymbolicRef(head)) # ""
    THEN [ok |-> TRUE, branch |-> StripOrigin(SymbolicRef(head))]
    ELSE IF TrackingRefExists(st, "master")
    THEN [ok |-> TRUE, branch |-> "master"]
    ELSE [ok |-> FALSE, branch |-> ""]

\* [ok, branch]; ~ok is the error "Could not detect base branch. ... Please
\* specify a base branch with --base <branch>".
GetBaseBranch(st, head) ==
    IF head # "none" /\ StripOrigin(SymbolicRef(head)) # ""
    THEN [ok |-> TRUE, branch |-> StripOrigin(SymbolicRef(head))]
    ELSE IF TrackingRefExists(st, "main") THEN [ok |-> TRUE, branch |-> "main"]
    ELSE IF TrackingRefExists(st, "master")
    THEN [ok |-> TRUE, branch |-> "master"]
    ELSE [ok |-> FALSE, branch |-> ""]

\* options.baseBranch when it was not given.
Undefined == ""

\* ---------------------------------------------------------- CleanupManager.run
\* The faults of one run are triples: <<"run", 0, op>> for the run's own
\* operations, <<"scan", i, query>> for the queries on the i-th checkable
\* worktree, <<"del", k, op>> for the k-th deletion of the batch.
FaultsAt(F, stage, k) == {f[3] : f \in {g \in F : g[1] = stage /\ g[2] = k}}

\* checkbox(): the candidates the user left checked, in the order shown.
RECURSIVE Selected(_, _, _)
Selected(candidates, pick, k) ==
    IF k > Len(candidates) THEN <<>>
    ELSE (IF k \in pick THEN <<candidates[k]>> ELSE <<>>)
            \o Selected(candidates, pick, k + 1)

\* lines 310-316: one deleteWorktree(candidate.name, true) per member of the
\* batch, from the k-th on; an error is reported and the loop goes on.
RECURSIVE DeleteBatchStopsAtFailure(_, _, _, _, _, _)
DeleteBatchStopsAtFailure(st, cfg, toDelete, k, F, attempts) ==
    IF k > Len(toDelete) THEN [st |-> st, attempts |-> attempts]
    ELSE CHOOSE res \in
            {IF r.status = "ok"
             THEN DeleteBatchStopsAtFailure(
                      r.st, cfg, toDelete, k + 1, F,
                      Append(attempts, [name |-> toDelete[k].name,
                                        status |-> r.status]))
             ELSE [st |-> r.st,
                   attempts |-> Append(attempts,
                                       [name |-> toDelete[k].name,
                                        status |-> r.status])] :
                r \in {DeleteWorktree(st, cfg, toDelete[k].name, TRUE,
                                      FaultsAt(F, "del", k))}} : TRUE

RECURSIVE DeleteBatch(_, _, _, _, _, _)
DeleteBatch(st, cfg, toDelete, k, F, attempts) ==
    IF k > Len(toDelete) THEN [st |-> st, attempts |-> attempts]
    ELSE CHOOSE res \in
            {DeleteBatch(r.st, cfg, toDelete, k + 1, F,
                         Append(attempts, [name |-> toDelete[k].name,
                                           status |-> r.status])) :
                r \in {DeleteWorktree(st, cfg, toDelete[k].name, TRUE,
                                      FaultsAt(F, "del", k))}} : TRUE

\* lines 318-324: `git worktree prune`; a failure is ignored.
PruneFirst(st, F) ==
    [st |-> [st EXCEPT !.ops = <<"prune">> \o @],
     pruned |-> IF "prune" \in FaultsAt(F, "run", 0) THEN "failed" ELSE "ok"]

Prune(st, F) ==
    [st |-> Issue(st, "prune"),
     pruned |-> IF "prune" \in FaultsAt(F, "run", 0) THEN "failed" ELSE "ok"]

RunResult(st, status, found, opts, toDelete, attempts, pruned) ==
    [st |-> st, status |-> status, scan |-> found,
     batch |-> [NoBatch EXCEPT !.dryRun = opts.dryRun, !.yes = opts.yes,
                               !.toDelete = toDelete, !.attempts = attempts,
                               !.pruned = pruned,
                               !.reported = Len(toDelete)]]

\* lines 242-248: `git fetch origin <base>`; [st, ok].
FetchBaseIgnoresFailure(st, baseBranch, F) ==
    IF "fetch" \in FaultsAt(F, "run", 0) \/ st.remote[baseBranch] = NoRef
    THEN [st |-> Issue(st, "fetch"), ok |-> TRUE]
    ELSE [st |-> [Issue(st, "fetch") EXCEPT
                     !.tracking[baseBranch] = st.remote[baseBranch]],
          ok |-> TRUE]

FetchBase(st, baseBranch, F) ==
    IF "fetch" \in FaultsAt(F, "run", 0) \/ st.remote[baseBranch] = NoRef
    THEN [st |-> Issue(st, "fetch"), ok |-> FALSE]
    ELSE [st |-> [Issue(st, "fetch") EXCEPT
                     !.tracking[baseBranch] = st.remote[baseBranch]],
          ok |-> TRUE]

\* lines 267-271: a dry run stops once the candidates are listed.
DryRunUnlessYes(opts) == opts.dryRun /\ ~opts.yes
DryRun(opts) == opts.dryRun

\* lines 290-303: nothing left checked, or the confirmation answered no.
DeclinedOnlyIfEmpty(opts, selected) == Len(selected) = 0
Declined(opts, selected) == Len(selected) = 0 \/ ~opts.confirmed

\* lines 254-260: no candidate was found; run reports it and returns.
NothingFoundNever(candidates) == FALSE
NothingFound(candidates) == Len(candidates) = 0

\* lines 318-326: the catch around the prune is empty and run goes on to
\* report the clean-up as done.
AfterPruneFailureIsFatal(pruned) ==
    IF pruned = "failed" THEN "PruneFailed" ELSE "ok"
AfterPrune(pruned) == "ok"

\* lines 254-326: what run does with the candidates found.  opts also
\* carries what the user answers to the two prompts (pick, confirmed).
RunBatch(s1, cfg, opts, F, found) ==
    LET candidates == found.candidates
        selected == Selected(candidates, opts.pick, 1)
        toDelete == IF opts.yes THEN candidates ELSE selected
        stop == RunResult(s1, "ok", found, opts, <<>>, <<>>, "none")
        answered(r) ==
            [r EXCEPT !.batch.selected = selected,
                      !.batch.confirmed = Len(selected) # 0 /\ opts.confirmed]
    IN IF found.status # "ok"
       THEN RunResult(s1, found.status, found, opts, <<>>, <<>>, "none")
       ELSE IF NothingFound(candidates) THEN stop
       ELSE IF DryRun(opts) THEN stop
       ELSE IF ~opts.yes /\ Declined(opts, selected) THEN answered(stop)
       ELSE CHOOSE res \in
               {(IF opts.yes THEN r ELSE answered(r)) :
                   r \in {RunResult(Prune(d.st, F).st,
                                    AfterPrune(Prune(d.st, F).pruned),
                                    found, opts, toDelete, d.attempts,
                                    Prune(d.st, F).pruned) :
                            d \in {DeleteBatch(s1, cfg, toDelete, 1, F,
                                               <<>>)}}} : TRUE

\* line 252: findCandidates has returned; each worktree it evaluated had its
\* three predicates settled (Promise.all, line 204) before it did.
Scanned(st, found) ==
    [st EXCEPT !.ops = @ \o [k \in 1..Len(found.evals) |-> "evaluate"]]

\* run(options): guard, the base branch (options.baseBranch, or the one
\* getBaseBranch detects), fetch of the base branch, scan, then the batch.
Run(st, cfg, head, baseOption, opts, F) ==
    LET detected == GetBaseBranch(st, head)
        baseBranch == IF baseOption # Undefined THEN baseOption
                      ELSE detected.branch
        none == [NoScan EXCEPT !.base = baseBranch]
        f == FetchBase(st, baseBranch, F)
        n == Len(Filter(ListWorktrees(f.st)))
    IN IF ~EnsureBareRepo(cfg)
       THEN RunResult(st, "NotBare", [NoScan EXCEPT !.base = baseOption],
                      opts, <<>>, <<>>, "none")
       ELSE IF baseOption = Undefined /\ ~detected.ok
       THEN RunResult(st, "NoBaseBranch", NoScan, opts, <<>>, <<>>, "none")
       ELSE IF ~f.ok
       THEN RunResult(f.st, "FetchFailed", none, opts, <<>>, <<>>, "none")
       ELSE CHOOSE res \in
               {RunBatch(Scanned(f.st, found), cfg, opts, F, found) :
                   found \in {FindCandidates(
                                 f.st, cfg, baseBranch,
                                 "list" \in FaultsAt(F, "run", 0),
                                 [i \in 1..n |-> FaultsAt(F, "scan", i)])}} :
               TRUE

\* The queries that fail during one scan: at most MaxFaults of them.
ScanFaults(n) == UpTo((1..n) \X PredicateOps, MaxFaults)

FindCandidatesStep(baseBranch) ==
    /\ Idle
    /\ LET n == Len(Filter(ListWorktrees(Store)))
       IN \E listFails \in BOOLEAN :
          \E F \in (IF listFails THEN {{}} ELSE ScanFaults(n)) :
            scan' = FindCandidates(Store, coreBare, baseBranch, listFails,
                        [i \in 1..n |-> {q \in PredicateOps : <<i, q>> \in F}])
    /\ outcome' = [NoOutcome("findCandidates") EXCEPT
                      !.base = baseBranch, !.status = scan'.status]
    /\ UNCHANGED <<coreBare, hookFile, originHead, flight, listing, remote,
                   tracking, heads, registry, sync, ops, batch>>

\* --------------------------------------------- findCandidates, step by step
\* The loop of lines 197-224 as the event loop runs it.  Promise.all calls
\* isMerged, hasUncommittedChanges and hasUnpushedCommits one after the
\* other; each runs up to its first git command and leaves it in flight.
\* The commands answer in any order, and a predicate whose command has
\* answered issues its next one or settles.  The loop goes on once the three
\* have settled.
Predicates == {"merged", "uncommitted", "unpushed"}

CandidateOf(worktree) ==
    [path |-> worktree.path, name |-> worktree.path,
     branch |-> worktree.branch, commit |-> worktree.commit]

PredicateResult(st, worktree, baseBranch, faults, q) ==
    IF q = "merged"
    THEN IsMerged(st, CandidateOf(worktree), baseBranch, faults)
    ELSE IF q = "uncommitted"
    THEN HasUncommittedChanges(st, CandidateOf(worktree), faults)
    ELSE HasUnpushedCommits(st, CandidateOf(worktree), baseBranch, faults)

\* line 214: `await Promise.all(...)`; the next iteration starts when the
\* three predicates of this one have settled and the iteration has ended.
CanStartNextAtOnce(fl) == TRUE
CanStartNext(fl) == fl.pending = {} /\ fl.joined = fl.next - 1

Answered(fl, i, q) == \E a \in fl.answers : a.i = i /\ a.q = q
AnswerOf(fl, i, q) ==
    (CHOOSE a \in fl.answers : a.i = i /\ a.q = q).result

Scanning == outcome.cmd = "scan" /\ outcome.status = "running"

\* lines 182-195: the guard and the listing.
ScanStart(baseBranch) ==
    /\ Idle
    /\ LET n == Len(Filter(ListWorktrees(Store)))
       IN \E listFails \in BOOLEAN :
          \E F \in (IF listFails THEN {{}} ELSE ScanFaults(n)) :
            LET status == IF ~EnsureBareRepo(coreBare) THEN "NotBare"
                          ELSE IF listFails THEN "ListFailed"
                          ELSE "running"
            IN /\ outcome' = [NoOutcome("scan") EXCEPT
                                 !.base = baseBranch, !.status = status]
               /\ scan' = [NoScan EXCEPT !.base = baseBranch,
                                         !.status = status]
               /\ flight' =
                     IF status # "running" THEN NoFlight
                     ELSE [NoFlight EXCEPT
                              !.checkable = Filter(ListWorktrees(Store)),
                              !.faults = [i \in 1..n |->
                                            {q \in PredicateOps :
                                                <<i, q>> \in F}]]
    /\ UNCHANGED <<coreBare, hookFile, originHead, listing, remote, tracking,
                   heads, registry, sync, ops, batch>>

\* lines 197-218: the next worktree's three predicates are called.
StartPredicates ==
    /\ Scanning
    /\ flight.next <= Len(flight.checkable)
    /\ CanStartNext(flight)
    /\ flight' = [flight EXCEPT
                     !.next = @ + 1,
                     !.pending = @ \cup
                        {[i |-> flight.next, q |-> q,
                          left |-> Cardinality(
                              PredicateResult(
                                  Store, flight.checkable[flight.next],
                                  scan.base, flight.faults[flight.next],
                                  q).issued)] : q \in Predicates}]
    /\ UNCHANGED <<coreBare, hookFile, originHead, listing, remote, tracking,
                   heads, registry, outcome, sync, ops, scan, batch>>

\* A git command of predicate q of the i-th worktree answers.
Answer(i, q) ==
    /\ Scanning
    /\ \E p \in flight.pending :
          /\ p.i = i /\ p.q = q
          /\ flight' =
                IF p.left > 1
                THEN [flight EXCEPT
                         !.pending = (@ \ {p})
                                        \cup {[p EXCEPT !.left = @ - 1]}]
                ELSE [flight EXCEPT
                         !.pending = @ \ {p},
                         !.answers = @ \cup
                            {[i |-> i, q |-> q,
                              result |-> PredicateResult(
                                  Store, flight.checkable[i], scan.base,
                                  flight.faults[i], q)]},
                         !.order = Append(@, <<i, q>>)]
    /\ UNCHANGED <<coreBare, hookFile, originHead, listing, remote, tracking,
                   heads, registry, outcome, sync, ops, scan, batch>>

\* lines 214-223: Promise.all resolves with the three answers.
Join ==
    /\ Scanning
    /\ flight.joined < flight.next - 1
    /\ LET i == flight.joined + 1
       IN /\ \A q \in Predicates : Answered(flight, i, q)
          /\ LET merged == AnswerOf(flight, i, "merged")
                 uncommitted == AnswerOf(flight, i, "uncommitted")
                 unpushed == AnswerOf(flight, i, "unpushed")
             IN scan' = [scan EXCEPT !.evals = Append(@,
                  [candidate |-> CandidateOf(flight.checkable[i]),
                   merged |-> merged.val,
                   uncommitted |-> uncommitted.val,
                   unpushed |-> unpushed.val,
                   issued |-> merged.issued \cup uncommitted.issued
                                 \cup unpushed.issued,
                   failed |-> merged.failed \cup uncommitted.failed
                                 \cup unpushed.failed,
                   include |-> merged.val /\ ~uncommitted.val
                                  /\ ~unpushed.val])]
          /\ flight' = [flight EXCEPT !.joined = i]
    /\ UNCHANGED <<coreBare, hookFile, originHead, listing, remote, tracking,
                   heads, registry, outcome, sync, ops, batch>>

\* lines 226-229: the loop is over and the candidates are returned.
ScanEnd ==
    /\ Scanning
    /\ flight.joined = Len(flight.checkable)
    /\ scan' = [scan EXCEPT !.status = "ok",
                            !.candidates = Included(scan.evals)]
    /\ outcome' = [outcome EXCEPT !.status = "ok"]
    /\ UNCHANGED <<coreBare, hookFile, originHead, listing, flight, remote,
                   tracking, heads, registry, sync, ops, batch>>

\* The stores a cleanup scan is run against: at most one worktree per
\* path, listed in one of two orders; the worktree of main and that of feat
\* may hold uncommitted changes, the one at fix may be detached.
Shapes ==
    {[path |-> "main", branch |-> "main", head |-> NoRef, bare |-> FALSE,
      dirt |-> d] : d \in {{}, {"untracked"}}}
    \cup
    {[path |-> "feat", branch |-> "feat", head |-> NoRef, bare |-> FALSE,
      dirt |-> d] : d \in {{}} \cup {{k} : k \in DirtKinds}}
    \cup
    {[path |-> "fix", branch |-> "fix", head |-> NoRef, bare |-> FALSE,
      dirt |-> {}]}
    \cup
    {[path |-> "fix", branch |-> Detached, head |-> c, bare |-> FALSE,
      dirt |-> {}] : c \in Commits}

ListingOrders == {<<"main", "feat", "fix">>, <<"fix", "feat", "main">>}

PathSeqs ==
    {SelectSeq(o, LAMBDA x : x \in P) : o \in ListingOrders, P \in SUBSET Branches}

CleanupRegistries ==
    UNION {{<<BareEntry>> \o s : s \in
              {s \in [1..Len(ps) -> Shapes] :
                  \A i \in 1..Len(ps) : s[i].path = ps[i]}} : ps \in PathSeqs}

Bound(reg, b) == \E i \in 1..Len(reg) : reg[i].branch = b

InitCleanup ==
    /\ registry \in CleanupRegistries
    /\ coreBare \in {"true"} \cup (IF Len(registry) = 1 THEN {"false"} ELSE {})
    /\ hookFile = FALSE
    /\ originHead = "main"
    /\ heads \in {h \in [Branches -> RefVals] :
                    /\ h["main"] <= 1
                    /\ \A b \in Branches : (h[b] # NoRef) <=> Bound(registry, b)}
    /\ remote \in {r \in [Branches -> RefVals] :
                    /\ r["main"] = 1
                    /\ r["feat"] <= 1
                    /\ r["fix"] <= 1
                    /\ \A b \in Branches : ~Bound(registry, b) /\ b # "main"
                                              => r[b] = NoRef}
    /\ tracking \in {t \in [Branches -> RefVals] :
                    \A b \in Branches \ {"main"} : t[b] = remote[b]}
    /\ outcome = NoOutcome("none")
    /\ sync = NoSync
    /\ ops = <<>>
    /\ scan = NoScan
    /\ batch = NoBatch
    /\ listing = NoListing
    /\ flight = NoFlight

NextCleanup ==
    \/ \E baseBranch \in BaseNames : FindCandidatesStep(baseBranch)
    \/ Exit

SpecCleanup == InitCleanup /\ [][NextCleanup]_vars

\* ----------------------------------------------------- list and cleanup run
\* The options of a run and the answers to its prompts, for n worktrees
\* that can be shown.
RunOptions(n) ==
    {[dryRun |-> TRUE, yes |-> y, pick |-> {}, confirmed |-> FALSE] :
        y \in BOOLEAN}
    \cup {[dryRun |-> FALSE, yes |-> TRUE, pick |-> {}, confirmed |-> FALSE]}
    \cup {[dryRun |-> FALSE, yes |-> FALSE, pick |-> P, confirmed |-> c] :
            P \in SUBSET (1..n), c \in BOOLEAN}

\* What may fail during one run: its own operations, one query of each kind
\* of answer (remote presence, history) per worktree scanned, and the
\* operations of each deletion.
RunScanOps == {"ls-heads", "log"}

RunFaultOps(n) ==
    ({"run"} \X {0} \X {"fetch", "list", "prune"})
    \cup ({"scan"} \X (1..n) \X RunScanOps)
    \cup ({"del"} \X (1..n) \X {"list", "remove"})

CleanupRun(baseOption) ==
    /\ Idle
    /\ LET n == Len(Filter(ListWorktrees(Store)))
       IN \E opts \in RunOptions(n), F \in UpTo(RunFaultOps(n), MaxFaults) :
            \E r \in {Run(Store, coreBare, originHead, baseOption, opts, F)} :
               /\ remote' = r.st.remote
               /\ tracking' = r.st.tracking
               /\ heads' = r.st.heads
               /\ registry' = r.st.wts
               /\ ops' = r.st.ops
               /\ scan' = r.scan
               /\ batch' = r.batch
               /\ outcome' = [NoOutcome("cleanup") EXCEPT
                                 !.name = baseOption, !.base = r.scan.base,
                                 !.status = r.status]
    /\ UNCHANGED <<coreBare, hookFile, originHead, flight, listing, sync>>

\* ------------------------------------------- run, suspended at its prompts
\* An interactive run (neither --dry-run nor --yes) that found candidates
\* awaits checkbox() and confirm() (lines 274-301).  While it waits the
\* store belongs to the user, who may edit or commit in any worktree.
Prompting == outcome.cmd = "cleanup" /\ outcome.status = "prompting"

\* lines 235-265 and 277: guard, base branch, fetch and scan of a run that
\* reaches the selection prompt.
RunToPrompt(baseOption) ==
    /\ Idle
    /\ EnsureBareRepo(coreBare)
    /\ LET detected == GetBaseBranch(Store, originHead)
           baseBranch == IF baseOption # Undefined THEN baseOption
                         ELSE detected.branch
           n == Len(Filter(ListWorktrees(Store)))
       IN /\ baseOption # Undefined \/ detected.ok
          /\ \E F \in UpTo(({"run"} \X {0} \X {"fetch", "list"})
                            \cup ({"scan"} \X (1..n) \X RunScanOps),
                           MaxFaults) :
             \E f \in {FetchBase(Store, baseBranch, F)} :
             \E found \in {FindCandidates(
                               f.st, coreBare, baseBranch,
                               "list" \in FaultsAt(F, "run", 0),
                               [i \in 1..n |-> FaultsAt(F, "scan", i)])} :
                /\ f.ok
                /\ found.status = "ok"
                /\ ~NothingFound(found.candidates)
                /\ remote' = f.st.remote
                /\ tracking' = f.st.tracking
                /\ heads' = f.st.heads
                /\ registry' = f.st.wts
                /\ ops' = Scanned(f.st, found).ops
                /\ scan' = found
                /\ outcome' = [NoOutcome("cleanup") EXCEPT
                                  !.name = baseOption, !.base = baseBranch,
                                  !.status = "prompting"]
    /\ batch' = NoBatch
    /\ UNCHANGED <<coreBare, hookFile, originHead, flight, listing, sync>>

\* The user, while the prompt is shown: a file appears in (or disappears
\* from) the i-th worktree.
EditAtPrompt(i, k) ==
    /\ Prompting
    /\ i \in 1..Len(registry)
    /\ ~registry[i].bare
    /\ registry' = [registry EXCEPT ![i].dirt =
                        IF k \in @ THEN @ \ {k} ELSE @ \cup {k}]
    /\ UNCHANGED <<coreBare, hookFile, originHead, flight, listing, remote,
                   tracking, heads, outcome, sync, ops, scan, batch>>

\* The user, while the prompt is shown: a commit c is made on the branch of
\* the i-th worktree.
CommitAtPrompt(i, c) ==
    /\ Prompting
    /\ i \in 1..Len(registry)
    /\ ~registry[i].bare
    /\ registry[i].branch \in Branches
    /\ c # heads[registry[i].branch]
    /\ IsAncestor(heads[registry[i].branch], c)
    /\ heads' = [heads EXCEPT ![registry[i].branch] = c]
    /\ UNCHANGED <<coreBare, hookFile, originHead, flight, listing, remote,
                   tracking, registry, outcome, sync, ops, scan, batch>>

\* lines 277-326: the prompts are answered and run goes on with the
\* candidates it found before it asked.
AnswerPrompt ==
    /\ Prompting
    /\ LET n == Len(scan.candidates)
       IN \E pick \in SUBSET (1..n), confirmed \in BOOLEAN :
          \E F \in UpTo(({"run"} \X {0} \X {"prune"})
                            \cup ({"del"} \X (1..n) \X {"list", "remove"}),
                         MaxFaults) :
          \E r \in {RunBatch(Store, coreBare,
                              [dryRun |-> FALSE, yes |-> FALSE,
                               pick |-> pick, confirmed |-> confirmed],
                              F, scan)} :
               /\ remote' = r.st.remote
               /\ tracking' = r.st.tracking
               /\ heads' = r.st.heads
               /\ registry' = r.st.wts
               /\ ops' = r.st.ops
               /\ batch' = r.batch
               /\ outcome' = [outcome EXCEPT !.status = r.status]
    /\ UNCHANGED <<coreBare, hookFile, originHead, flight, listing, sync,
                   scan>>

NextPrompt ==
    \/ \E baseBranch \in BaseNames : RunToPrompt(baseBranch)
    \/ \E i \in 2..3, k \in EditKinds : EditAtPrompt(i, k)
    \/ \E i \in 2..3, c \in Commits : CommitAtPrompt(i, c)
    \/ AnswerPrompt
    \/ Exit

\* The stores a cleanup run is started in: the worktree of main and others,
\* all clean, the tracking ref of main as an earlier fetch left it.
RunRegistries ==
    {r \in CleanupRegistries :
        Bound(r, "main") /\ \A i \in 1..Len(r) : r[i].dirt = {}}

InitStore ==
    /\ registry \in RunRegistries
    /\ originHead = "main"
    /\ heads \in {h \in [Branches -> RefVals] :
                    /\ h["main"] <= 1
                    /\ \A b \in Branches : (h[b] # NoRef) <=> Bound(registry, b)}
    /\ remote \in {r \in [Branches -> RefVals] :
                    /\ r["main"] # NoRef
                    /\ r["feat"] <= 1
                    /\ r["fix"] <= 1
                    /\ \A b \in Branches : ~Bound(registry, b) /\ b # "main"
                                              => r[b] = NoRef}
    /\ tracking = [remote EXCEPT !["main"] = 1]
    /\ outcome = NoOutcome("none")
    /\ sync = NoSync
    /\ ops = <<>>
    /\ scan = NoScan
    /\ batch = NoBatch
    /\ listing = NoListing
    /\ flight = NoFlight

InitRun == coreBare = "true" /\ hookFile = FALSE /\ InitStore

NextRun ==
    \/ \E baseBranch \in BaseNames : CleanupRun(baseBranch)
    \/ Exit

SpecRun == InitRun /\ [][NextRun]_vars

\* Interactive runs in those of these stores that hold at most two
\* worktrees, the user at work during the prompt.
InitPrompt == InitRun /\ Len(registry) <= 3

SpecPrompt == InitPrompt /\ [][NextPrompt]_vars

\* Cleanup runs without --base, in stores that differ in what origin/HEAD
\* names and in which of origin/main, origin/master and origin/feat exist.
BaseBranches == Branches \cup {"master"}
HeadTargets == {"none", "main", "master", "feat"}

BaseRegistries ==
    {r \in CleanupRegistries :
        /\ \A i \in 1..Len(r) : r[i].dirt = {}
        /\ \A i \in 2..Len(r) : r[i].path = "feat"}

InitBase ==
    /\ coreBare = "true"
    /\ hookFile = FALSE
    /\ originHead \in HeadTargets
    /\ registry \in BaseRegistries
    /\ heads = [b \in BaseBranches |->
                   IF Bound(registry, b) THEN 1 ELSE NoRef]
    /\ remote \in {r \in [BaseBranches -> 0..1] : r["fix"] = NoRef}
    /\ tracking \in {t \in [BaseBranches -> 0..1] :
                       /\ t["fix"] = NoRef
                       /\ \A b \in BaseBranches : remote[b] # NoRef
                                                     => t[b] = remote[b]}
    /\ outcome = NoOutcome("none")
    /\ sync = NoSync
    /\ ops = <<>>
    /\ scan = NoScan
    /\ batch = NoBatch
    /\ listing = NoListing
    /\ flight = NoFlight

NextBase ==
    \/ CleanupRun(Undefined)
    \/ Exit

SpecBase == InitBase /\ [][NextBase]_vars

\* Stores whose worktrees were not all made by this tool: the directory of
\* a worktree need not carry the name of its branch.  Every command runs in
\* them, one after the other.
CrossNames == {"feat", "fix"}

CrossShapes ==
    {[path |-> p, branch |-> b, head |-> NoRef, bare |-> FALSE, dirt |-> {}] :
        p \in CrossNames, b \in CrossNames}

CrossRegistries ==
    {<<BareEntry>> \o s : s \in
        {s \in UNION {[1..n -> CrossShapes] : n \in 0..2} :
            \A i, j \in 1..Len(s) :
                i # j => s[i].path # s[j].path /\ s[i].branch # s[j].branch}}

InitCross ==
    /\ coreBare = "true"
    /\ hookFile = FALSE
    /\ originHead = "main"
    /\ registry \in CrossRegistries
    /\ heads \in {h \in [Branches -> 0..2] :
                    /\ h["main"] = 1
                    /\ h["feat"] <= 1
                    /\ \A b \in CrossNames :
                          (h[b] # NoRef) <=> Bound(registry, b)}
    /\ remote = heads
    /\ tracking = remote
    /\ outcome = NoOutcome("none")
    /\ sync = NoSync
    /\ ops = <<>>
    /\ scan = NoScan
    /\ batch = NoBatch
    /\ listing = NoListing
    /\ flight = NoFlight

NextCross ==
    \/ \E name \in CreateNames, baseBranch \in BaseNames :
          Create(name, baseBranch)
    \/ \E name \in CreateNames : Checkout(name)
    \/ \E name \in CrossNames, force \in BOOLEAN : Delete(name, force)
    \/ \E baseBranch \in BaseNames : CleanupRun(baseBranch)
    \/ Exit

SpecCross == InitCross /\ [][NextCross]_vars

\* `wtm list` on any output of at most MaxBlocks blocks: a block holds, in
\* git's order, any of the lines git prints for a worktree, a line the
\* parser does not know among them.
LineKinds == {"worktree", "HEAD", "branch", "bare", "locked"}

BlockOf(kinds, path) ==
    (IF "worktree" \in kinds THEN << <<"worktree", path>> >> ELSE <<>>)
    \o (IF "HEAD" \in kinds THEN << <<"HEAD", 1>> >> ELSE <<>>)
    \o (IF "branch" \in kinds THEN << <<"branch", "refs/heads/", "feat">> >>
        ELSE <<>>)
    \o (IF "bare" \in kinds THEN << <<"bare">> >> ELSE <<>>)
    \o (IF "locked" \in kinds THEN << <<"locked">> >> ELSE <<>>)

Blocks ==
    {BlockOf(kinds, path) : kinds \in SUBSET LineKinds \ {{}},
                            path \in {StoreRoot, "feat"}}

Listings == UNION {[1..n -> Blocks] : n \in 0..MaxBlocks}

InitParse ==
    /\ coreBare = "true"
    /\ hookFile = FALSE
    /\ originHead = "main"
    /\ registry = <<BareEntry>>
    /\ heads = [b \in Branches |-> IF b = "main" THEN 1 ELSE NoRef]
    /\ remote = heads
    /\ tracking = heads
    /\ outcome = NoOutcome("none")
    /\ sync = NoSync
    /\ ops = <<>>
    /\ scan = NoScan
    /\ batch = NoBatch
    /\ listing = NoListing
    /\ flight = NoFlight

NextParse ==
    \/ Idle /\ \E output \in Listings : ListCommand(output)
    \/ Exit

SpecParse == InitParse /\ [][NextParse]_vars

\* Scans followed step by step, in stores with up to two worktrees outside
\* the protected branches.
FlightRegistries ==
    {r \in CleanupRegistries :
        /\ ~Bound(r, "main")
        /\ \A i \in 1..Len(r) : r[i].head <= 1}

InitFlight ==
    /\ coreBare = "true"
    /\ hookFile = FALSE
    /\ originHead = "main"
    /\ registry \in FlightRegistries
    /\ heads \in {h \in [Branches -> 0..2] :
                    /\ h["main"] = 1
                    /\ h["fix"] <= 1
                    /\ \A b \in CrossNames :
                          (h[b] # NoRef) <=> Bound(registry, b)}
    /\ remote = heads
    /\ tracking = remote
    /\ outcome = NoOutcome("none")
    /\ sync = NoSync
    /\ ops = <<>>
    /\ scan = NoScan
    /\ batch = NoBatch
    /\ listing = NoListing
    /\ flight = NoFlight

NextFlight ==
    \/ \E baseBranch \in BaseNames : ScanStart(baseBranch)
    \/ StartPredicates
    \/ \E i \in 1..2, q \in Predicates : Answer(i, q)
    \/ Join
    \/ ScanEnd
    \/ Exit

SpecFlight == InitFlight /\ [][NextFlight]_vars

\* Cleanup runs in stores where the worktree of the protected branch main
\* and a worktree of feat sit in directories named main, feat or fix,
\* whichever way round.
ProtectedShapes ==
    {[path |-> p, branch |-> b, head |-> NoRef, bare |-> FALSE, dirt |-> {}] :
        p \in Branches, b \in {"main", "feat"}}

ProtectedRegistries ==
    {<<BareEntry>> \o s : s \in
        {s \in UNION {[1..n -> ProtectedShapes] : n \in 1..2} :
            /\ \E i \in 1..Len(s) : s[i].branch = "main"
            /\ \A i, j \in 1..Len(s) :
                  i # j => s[i].path # s[j].path /\ s[i].branch # s[j].branch}}

InitProtected ==
    /\ coreBare = "true"
    /\ hookFile = FALSE
    /\ originHead = "main"
    /\ registry \in ProtectedRegistries
    /\ heads \in {h \in [Branches -> 0..2] :
                    /\ h["main"] = 1
                    /\ h["fix"] = NoRef
                    /\ (h["feat"] # NoRef) <=> Bound(registry, "feat")}
    /\ remote \in {r \in [Branches -> 0..2] :
                     /\ r["main"] # NoRef
                     /\ r["feat"] \in {NoRef, heads["feat"]}
                     /\ r["fix"] = NoRef}
    /\ tracking = [remote EXCEPT !["main"] = 1]
    /\ outcome = NoOutcome("none")
    /\ sync = NoSync
    /\ ops = <<>>
    /\ scan = NoScan
    /\ batch = NoBatch
    /\ listing = NoListing
    /\ flight = NoFlight

NextProtected ==
    \/ \E baseBranch \in BaseNames : CleanupRun(baseBranch)
    \/ Exit

SpecProtected == InitProtected /\ [][NextProtected]_vars

\* Every command, in a directory that is not a bare store.
InitGuard == coreBare \in {"false", "none"} /\ hookFile \in BOOLEAN /\ InitStore

NextGuard ==
    \/ \E name \in CreateNames, baseBranch \in BaseNames :
          Create(name, baseBranch)
    \/ \E name \in CmdNames : Checkout(name)
    \/ \E name \in DeleteNames, force \in BOOLEAN : Delete(name, force)
    \/ ListCommand(Porcelain(Store))
    \/ \E baseBranch \in BaseNames : FindCandidatesStep(baseBranch)
    \/ \E baseBranch \in BaseNames : CleanupRun(baseBranch)
    \/ Exit

SpecGuard == InitGuard /\ [][NextGuard]_vars

\* ------------------------------------------------------------------- claims
Issued(op) == Includes(ops, op)
IssuedNext(op) == Includes(ops', op)

\* The entry `delete <name>` locates in the current listing is the bare store.
LocatesBare(name) ==
    LET worktrees == ListWorktrees(Store)
        found == FindWorktree(worktrees, name)
    IN found # 0 /\ worktrees[found].isBare

\* C1: delete(name, force) never removes the entry flagged as the bare
\* store: whenever the located entry is bare, with or without force, the
\* command fails, no worktree-removal is issued and the listing is unchanged.
C1_DeleteRefusesBare ==
    [][(Idle /\ outcome'.cmd = "delete" /\ LocatesBare(outcome'.name))
          => /\ outcome'.status # "ok"
             /\ ~IssuedNext("remove")
             /\ registry' = registry
             /\ registry'[1] = BareEntry]_vars

C1_Witness ==
    /\ outcome.cmd = "delete"
    /\ outcome.force
    /\ outcome.status = "BareRefused"
    /\ Len(registry) > 1

\* C6: whenever the synchronization step of create or checkout completes
\* successfully, the tracking ref origin/B holds the commit the remote
\* authority's branch B had when it was queried for verification.
C6_SyncLeavesTrackingAtRemote ==
    (outcome.cmd \in {"create", "checkout"} /\ sync.status = "ok")
        => tracking[sync.branch] = sync.verified

\* Synchronization of the base branch did not succeed: a query failed, or the
\* tracking ref differs from the commit read from the remote.
SyncFailed ==
    \/ sync.status = "warned"
    \/ sync.status = "ok" /\ tracking[sync.branch] # sync.verified

\* C7: if synchronizing the base branch fails, create fails with a
\* synchronization error and no worktree-add is issued, so the listing gains
\* no entry.
C7_SyncFailureAbortsCreate ==
    (outcome.cmd = "create" /\ SyncFailed)
        => /\ outcome.status = "SyncFailed"
           /\ ~Issued("add-tracking")
           /\ ~Issued("add-local")

\* C8: whenever create adds a worktree, the new branch starts at the
\* tracking ref origin/<baseBranch>, never at the local branch <baseBranch>.
C8_CreateStartsAtTrackingRef ==
    (outcome.cmd = "create" /\ outcome.start # "none")
        => outcome.start = "tracking"

\* C9: when the post_create hook fails during create, create fails with an
\* error carrying the hook name and the worktree just added stays listed.
C9_HookFailureFailsCreate ==
    [][(Idle /\ outcome'.cmd = "create" /\ outcome'.hookRun = "failed")
          => /\ outcome'.status = "HookFailed"
             /\ outcome'.hook = "post_create"
             /\ registry' = Append(registry, NewEntry(outcome'.name))]_vars

C9_Witness ==
    /\ outcome.cmd = "create"
    /\ outcome.hookRun = "failed"
    /\ outcome.status = "HookFailed"
    /\ \E i \in 1..Len(registry) : registry[i].path = outcome.name

\* C10: when the post_create hook fails during checkout, on either path, the
\* failure reaching the caller is a hook failure carrying the hook name, not
\* a NotFound error.
C10_HookFailureFailsCheckout ==
    (outcome.cmd = "checkout" /\ outcome.hookRun = "failed")
        => /\ outcome.status = "HookFailed"
           /\ outcome.hook = "post_create"

\* The command got past the guard and obtained the listing.
Listed(cmd) ==
    /\ Idle
    /\ outcome'.cmd = cmd
    /\ outcome'.status \notin {"NotBare", "ListFailed"}

\* The listing has an entry whose path ends in /name or whose branch is name.
IsBound(name) ==
    \E i \in 1..Len(registry) :
        registry[i].path = name \/ registry[i].branch = name

C12_CheckoutUnknownIsNotFound ==
    [][(/\ Listed("checkout")
        /\ ~IsBound(outcome'.name)
        /\ remote[outcome'.name] = NoRef)
          => /\ outcome'.status = "NotFound"
             /\ outcome'.avail = AvailableWorktrees(ListWorktrees(Store))]_vars

\* C13: checkout(name), when no worktree matches and the remote branch
\* exists and is synchronized: if the local branch name exists, a successful
\* checkout attaches the worktree to it and creates no branch; otherwise a
\* new local branch name is created from the synchronized tracking ref
\* origin/name.  A successful checkout adds exactly one entry, bound to name.
C13_CheckoutAttachesOrCreates ==
    [][(/\ Listed("checkout")
        /\ ~IsBound(outcome'.name)
        /\ remote[outcome'.name] # NoRef
        /\ sync'.status = "ok")
          => LET name == outcome'.name
             IN /\ heads[name] # NoRef /\ outcome'.status = "ok"
                    => outcome'.start = "existing"
                /\ heads[name] = NoRef
                    => /\ outcome'.status = "ok"
                       /\ outcome'.start = "tracking"
                /\ outcome'.status = "ok"
                    => registry' = Append(registry, NewEntry(name))]_vars

\* C14: delete(name, force), when no listed entry has a path ending in
\* /name or a branch equal to name, fails with a NotFound error and issues
\* no worktree-removal; the listing is unchanged.
C14_DeleteUnknownIsNotFound ==
    [][(Listed("delete") /\ ~IsBound(outcome'.name))
          => /\ outcome'.status = "NotFound"
             /\ ~IssuedNext("remove")
             /\ registry' = registry]_vars

C14_Witness ==
    /\ outcome.cmd = "delete"
    /\ outcome.status = "NotFound"
    /\ Len(registry) > 1
    /\ ~\E i \in 1..Len(registry) :
           registry[i].path = outcome.name \/ registry[i].branch = outcome.name

\* The error delete ends with tells the caller about the force option.
ForceHinted == outcome.status = "DeleteFailed"

\* C15: whenever the worktree-removal issued by delete fails, delete fails
\* with an error telling the caller that the force option is available, and
\* the entry is left in place.
C15_FailedRemovalHintsForce ==
    /\ (outcome.cmd = "delete" /\ Issued("remove") /\ IsBound(outcome.name))
          => ForceHinted
    /\ (outcome.cmd = "delete" /\ ForceHinted)
          => Issued("remove") /\ IsBound(outcome.name)

C15_Witness ==
    /\ outcome.cmd = "delete"
    /\ ~outcome.force
    /\ ForceHinted
    /\ \E i \in 1..Len(registry) :
          registry[i].path = outcome.name /\ registry[i].dirt # {}

\* C16: create, checkout, list, delete, findCandidates and cleanup run each
\* check the bare-store guard before anything else: in a store that is not
\* bare the command fails, no fetch, ref update, worktree-add,
\* worktree-removal, prune or hook is issued, nothing is scanned, and the
\* store is left as it was.
C16_GuardFirst ==
    [][(Idle /\ coreBare # "true" /\ outcome'.cmd # "none")
          => /\ outcome'.status = "NotBare"
             /\ ops' = <<>>
             /\ sync' = NoSync
             /\ scan'.evals = <<>>
             /\ batch'.attempts = <<>>
             /\ batch'.pruned = "none"
             /\ UNCHANGED <<coreBare, hookFile, originHead, flight, listing,
                            remote, tracking, heads, registry>>]_vars

C16_Witness ==
    /\ coreBare # "true"
    /\ outcome.cmd = "cleanup"
    /\ outcome.status = "NotBare"
    /\ batch.yes
    /\ Len(registry) > 2

RunEnded == outcome.cmd = "cleanup"

\* C17: in cleanup run, if the up-front fetch of the base branch fails, run
\* fails as a whole: no worktree is evaluated, none is removed and no prune
\* is issued.  A fetch that succeeded leaves origin/<base> at the remote's
\* commit.
C17_FetchFailureIsFatal ==
    /\ (RunEnded /\ tracking[outcome.base] # remote[outcome.base])
          => outcome.status = "FetchFailed"
    /\ (RunEnded /\ outcome.status = "FetchFailed")
          => /\ scan.evals = <<>>
             /\ batch.attempts = <<>>
             /\ ~Issued("remove")
             /\ ~Issued("prune")

C17_Witness ==
    /\ RunEnded
    /\ outcome.status = "FetchFailed"
    /\ batch.yes /\ ~batch.dryRun
    /\ tracking[outcome.base] # remote[outcome.base]
    /\ Len(registry) > 2

\* C18: cleanup run with dryRun never issues a worktree-removal or a prune,
\* whatever the candidates and also when yes is given as well; the listing
\* after the run is the listing before it.
C18_DryRunRemovesNothing ==
    [][(Idle /\ outcome'.cmd = "cleanup" /\ batch'.dryRun)
          => /\ ~IssuedNext("remove")
             /\ ~IssuedNext("prune")
             /\ batch'.attempts = <<>>
             /\ registry' = registry]_vars

C18_Witness ==
    /\ RunEnded
    /\ outcome.status = "ok"
    /\ batch.dryRun /\ batch.yes
    /\ Len(scan.candidates) = 2

\* C19: in an interactive cleanup run (neither dryRun nor yes), an empty
\* selection or a negative confirmation ends the run with no
\* worktree-removal and no prune; the listing is unchanged.
C19_DeclinedRunRemovesNothing ==
    [][(/\ Idle /\ outcome'.cmd = "cleanup"
        /\ ~batch'.dryRun /\ ~batch'.yes
        /\ (batch'.selected = <<>> \/ ~batch'.confirmed))
          => /\ ~IssuedNext("remove")
             /\ ~IssuedNext("prune")
             /\ batch'.attempts = <<>>
             /\ registry' = registry]_vars

C19_Witness ==
    /\ RunEnded
    /\ outcome.status = "ok"
    /\ ~batch.dryRun /\ ~batch.yes
    /\ Len(batch.selected) = 2
    /\ ~batch.confirmed

\* C20: in the deletion batch of cleanup run a failed deletion does not
\* abort the batch: a deletion is attempted for every member of the
\* deletion set, in order, whatever became of the earlier ones, and run
\* completes successfully.
C20_BatchContinuesAfterFailure ==
    (RunEnded /\ batch.toDelete # <<>>)
        => /\ outcome.status = "ok"
           /\ Len(batch.attempts) = Len(batch.toDelete)
           /\ \A k \in 1..Len(batch.toDelete) :
                 batch.attempts[k].name = batch.toDelete[k].name

C20_Witness ==
    /\ RunEnded
    /\ outcome.status = "ok"
    /\ Len(batch.attempts) = 2
    /\ batch.attempts[1].status # "ok"
    /\ batch.attempts[2].status = "ok"

\* ---- cleanup scan
ScanDone == outcome.cmd = "findCandidates" /\ scan.status = "ok"

ProtectedEntry(w) == Includes(PROTECTED_BRANCHES, w.branch)

IsCandidate(path) ==
    \E k \in 1..Len(scan.candidates) : scan.candidates[k].path = path

Evaluated(path) ==
    \E k \in 1..Len(scan.evals) : scan.evals[k].candidate.path = path

FailedFor(path) ==
    UNION {scan.evals[k].failed :
             k \in {k \in 1..Len(scan.evals) :
                       scan.evals[k].candidate.path = path}}

\* The three conditions, read off the store itself.
RemoteBranchGone(w) == RemoteOf(Store, w.branch) = NoRef
Landed(w) == IsAncestor(HeadOf(Store, w), tracking[scan.base])
TrulyMerged(w) == RemoteBranchGone(w) \/ Landed(w)
TrulyClean(w) == w.dirt = {}
TrulyPushed(w) == IsAncestor(HeadOf(Store, w), tracking[scan.base])
TrulySafe(w) == TrulyMerged(w) /\ TrulyClean(w) /\ TrulyPushed(w)

Unprotected == {i \in 1..Len(registry) :
                   ~registry[i].bare /\ ~ProtectedEntry(registry[i])}

\* C2: a non-bare worktree not bound to a protected branch is among the
\* candidates if and only if it is merged, has no uncommitted change
\* (unstaged, staged, untracked) and has no unpushed commit, the three
\* conditions being those of the store when every query for the worktree
\* answered; a candidate always satisfies all three, also when it is merged
\* only because its remote branch was deleted.
C2_CandidateIffSafe ==
    ScanDone =>
        \A i \in Unprotected :
            /\ IsCandidate(registry[i].path) => TrulySafe(registry[i])
            /\ (TrulySafe(registry[i]) /\ FailedFor(registry[i].path) = {})
                  => IsCandidate(registry[i].path)

C2_Witness ==
    /\ ScanDone
    /\ \E i \in Unprotected : IsCandidate(registry[i].path)
    /\ \E i \in Unprotected :
          /\ RemoteBranchGone(registry[i])
          /\ ~Landed(registry[i])
          /\ TrulyClean(registry[i])
          /\ FailedFor(registry[i].path) = {}
          /\ ~IsCandidate(registry[i].path)

\* C3: a worktree bound to a protected branch is never among the candidates,
\* whatever its three conditions are, and no predicate is evaluated for it
\* nor for the bare entry.
C3_ProtectedNeverCandidate ==
    ScanDone =>
        \A i \in 1..Len(registry) :
            (registry[i].bare \/ ProtectedEntry(registry[i]))
                => /\ ~IsCandidate(registry[i].path)
                   /\ ~Evaluated(registry[i].path)

C3_Witness ==
    /\ ScanDone
    /\ scan.candidates # <<>>
    /\ \E i \in 1..Len(registry) :
          /\ ProtectedEntry(registry[i])
          /\ TrulySafe(registry[i])
          /\ ~Evaluated(registry[i].path)

CleanQueries == {"diff", "diff-cached", "ls-files"}

\* C4: when a query of the clean check (unstaged diff, staged diff, untracked
\* listing) or the log range of the unpushed check fails, the worktree is
\* taken to have uncommitted, respectively unpushed, work and is not a
\* candidate; the scan is not aborted: every unprotected worktree is still
\* evaluated.
C4_FailedQueryIsConservative ==
    ScanDone =>
        /\ Len(scan.evals) = Cardinality(Unprotected)
        /\ \A k \in 1..Len(scan.evals) :
              LET e == scan.evals[k]
              IN /\ e.failed \cap CleanQueries # {} => e.uncommitted
                 /\ "log" \in e.failed => e.unpushed
                 /\ e.failed \cap (CleanQueries \cup {"log"}) # {}
                       => ~IsCandidate(e.candidate.path)

C4_Witness ==
    /\ ScanDone
    /\ Len(scan.evals) = 2
    /\ "log" \in scan.evals[1].failed
    /\ \E i \in Unprotected :
          /\ registry[i].path = scan.evals[1].candidate.path
          /\ TrulySafe(registry[i])
    /\ IsCandidate(scan.evals[2].candidate.path)

\* C5: isMerged is true exactly when the remote has no branch named
\* candidate.branch or the candidate's commit is an ancestor of the base
\* branch tip origin/<base>; when the remote-existence query fails the
\* ancestor check alone decides, and when the ancestor check fails to run
\* the result is false.
C5_IsMergedValue ==
    ScanDone =>
        \A k \in 1..Len(scan.evals) :
            LET e == scan.evals[k]
                gone == RemoteOf(Store, e.candidate.branch) = NoRef
                anc == IsAncestor(e.candidate.commit, tracking[scan.base])
            IN /\ e.failed \cap {"ls-heads", "merge-base"} = {}
                     => (e.merged <=> (gone \/ anc))
               /\ ("ls-heads" \in e.failed /\ "merge-base" \notin e.failed)
                     => (e.merged <=> anc)
               /\ "merge-base" \in e.failed => ~e.merged

C5_Witness ==
    /\ ScanDone
    /\ \E k \in 1..Len(scan.evals) :
          LET e == scan.evals[k]
          IN /\ e.merged
             /\ e.candidate.branch \in Branches
             /\ remote[e.candidate.branch] = NoRef
             /\ ~IsAncestor(e.candidate.commit, tracking[scan.base])
    /\ \E k \in 1..Len(scan.evals) :
          LET e == scan.evals[k]
          IN /\ "ls-heads" \in e.failed
             /\ remote[e.candidate.branch] = NoRef
             /\ ~e.merged

\* ---- cleanup run, continued
RunScanned == Idle /\ outcome'.cmd = "cleanup" /\ scan'.status = "ok"

\* C21: when the listing holds no non-bare worktree outside the protected
\* branches, findCandidates returns the empty sequence; and whenever it
\* returns the empty sequence, cleanup run ends successfully without a
\* removal or a prune, the listing being left as it was.
C21_NothingFoundRemovesNothing ==
    [][RunScanned
          => /\ Unprotected = {}
                   => scan'.evals = <<>> /\ scan'.candidates = <<>>
             /\ scan'.candidates = <<>>
                   => /\ outcome'.status = "ok"
                      /\ ~IssuedNext("remove")
                      /\ ~IssuedNext("prune")
                      /\ batch'.attempts = <<>>
                      /\ registry' = registry]_vars

C21_Witness ==
    /\ RunEnded
    /\ outcome.status = "ok"
    /\ scan.status = "ok"
    /\ scan.candidates = <<>>
    /\ Unprotected = {}
    /\ batch.yes /\ ~batch.dryRun
    /\ ops = <<"fetch">>

\* C22: in cleanup run a failure of the final prune is ignored: run still
\* ends successfully, and every removal the batch performed stands.
Removals(attempts) ==
    Cardinality({k \in 1..Len(attempts) : attempts[k].status = "ok"})

C22_PruneFailureIgnored ==
    [][(Idle /\ outcome'.cmd = "cleanup" /\ batch'.pruned = "failed")
          => /\ outcome'.status = "ok"
             /\ Len(registry') = Len(registry) - Removals(batch'.attempts)
             /\ \A i \in 1..Len(registry') : Includes(registry, registry'[i])
      ]_vars

C22_Witness ==
    /\ RunEnded
    /\ batch.pruned = "failed"
    /\ outcome.status = "ok"
    /\ Len(batch.attempts) = 2
    /\ \A k \in 1..2 : batch.attempts[k].status = "ok"

\* ---- getBaseBranch
BaseDetected ==
    /\ Idle
    /\ outcome'.cmd = "cleanup"
    /\ outcome'.name = Undefined
    /\ outcome'.status # "NotBare"

\* C23: getBaseBranch returns the branch origin/HEAD names when origin/HEAD
\* is set; otherwise main when origin/main exists; otherwise master when
\* origin/master exists; otherwise it fails with the error asking for a
\* base branch.  The first source that answers wins: main is never returned
\* when origin/HEAD names another branch.
C23_BaseBranchPrecedence ==
    [][BaseDetected
          => /\ originHead # "none"
                   => /\ outcome'.status # "NoBaseBranch"
                      /\ outcome'.base = originHead
             /\ (originHead = "none" /\ tracking["main"] # NoRef)
                   => /\ outcome'.status # "NoBaseBranch"
                      /\ outcome'.base = "main"
             /\ (originHead = "none" /\ tracking["main"] = NoRef
                    /\ tracking["master"] # NoRef)
                   => /\ outcome'.status # "NoBaseBranch"
                      /\ outcome'.base = "master"
             /\ (originHead = "none" /\ tracking["main"] = NoRef
                    /\ tracking["master"] = NoRef)
                   => /\ outcome'.status = "NoBaseBranch"
                      /\ ops' = <<>>
                      /\ scan' = NoScan]_vars

C23_Witness ==
    /\ RunEnded
    /\ outcome.name = Undefined
    /\ outcome.status = "ok"
    /\ originHead = "feat"
    /\ outcome.base = "feat"
    /\ tracking["main"] # NoRef
    /\ tracking["master"] # NoRef

\* ---- create, then delete
Created == Idle /\ outcome'.cmd = "create" /\ outcome'.status = "ok"

\* C24: for a name w the listing does not hold, a successful create(w, main)
\* followed at once by a successful delete(w, force) leaves the listing
\* equal to the listing before the create.
C24_CreateDeleteRoundTrip ==
    [][(Created /\ outcome'.base = "main" /\ ~IsBound(outcome'.name))
          => \A faults \in FaultSets({"list", "remove"}) :
                LET deleted == DeleteWorktree(Store', coreBare, outcome'.name,
                                              TRUE, faults)
                IN deleted.status = "ok"
                      => ListWorktrees(deleted.st) = ListWorktrees(Store)]_vars

\* C26: after create(name, baseBranch) succeeds the listing holds exactly
\* one new entry, at <store>/name and bound to the new branch name; every
\* entry listed before is still listed, unchanged.
C26_CreateAddsOneEntry ==
    [][Created
          => LET before == ListWorktrees(Store)
                 after == ListWorktrees(Store')
             IN /\ Len(after) = Len(before) + 1
                /\ SubSeq(after, 1, Len(before)) = before
                /\ after[Len(after)].path = outcome'.name
                /\ after[Len(after)].branch = outcome'.name
                /\ ~after[Len(after)].isBare]_vars

\* ---- branches and worktrees
BoundTo(reg, i) ==
    IF reg[i].bare \/ reg[i].branch = Detached THEN "" ELSE reg[i].branch

\* C25: after any sequence of create, checkout, delete and cleanup run that
\* starts from a listing with distinct branches, no two entries of the
\* listing are bound to the same branch.
C25_OneWorktreePerBranch ==
    \A i, j \in 1..Len(registry) :
        (i # j /\ BoundTo(registry, i) # "")
            => BoundTo(registry, i) # BoundTo(registry, j)

C25_Witness ==
    /\ outcome.cmd = "create"
    /\ outcome.status = "CreateFailed"
    /\ outcome.name = "feat"
    /\ ~PathTaken(Store, "feat")
    /\ \E i \in 1..Len(registry) : registry[i].branch = "feat"
    /\ Issued("add-tracking") /\ Issued("add-local")

\* ---- list
ListDone == outcome.cmd = "list" /\ outcome.status = "ok"

HasPath(block) == \E i \in 1..Len(block) : block[i][1] = "worktree"
WithPath(blocks) == SelectSeq(blocks, HasPath)
ValueOf(block, key) ==
    LET i == CHOOSE i \in 1..Len(block) : block[i][1] = key
    IN block[i][Len(block[i])]

\* C27: list() maps the blocks of the listing to entries: every block with
\* a path line yields exactly one entry, in listing order, its commit being
\* "unknown" when the block has no commit line and its branch "detached"
\* when a non-bare block has no branch line; a block without a path line
\* yields no entry and no error.
C27_ListParsesBlocks ==
    ListDone =>
        LET kept == WithPath(listing.blocks)
            worktrees == listing.worktrees
        IN /\ Len(worktrees) = Len(kept)
           /\ \A k \in 1..Len(kept) :
                 LET b == kept[k]
                     bare == \E i \in 1..Len(b) : b[i][1] = "bare"
                     w == worktrees[k]
                 IN /\ w.path = ValueOf(b, "worktree")
                    /\ w.commit = (IF \E i \in 1..Len(b) : b[i][1] = "HEAD"
                                   THEN ValueOf(b, "HEAD") ELSE Unknown)
                    /\ (\E i \in 1..Len(b) : b[i][1] = "branch")
                          => w.branch = ValueOf(b, "branch")
                    /\ (~bare /\ ~\E i \in 1..Len(b) : b[i][1] = "branch")
                          => w.branch = Detached
                    /\ w.isBare = bare

C27_Witness ==
    /\ ListDone
    /\ Len(listing.blocks) = 2
    /\ ~HasPath(listing.blocks[1])
    /\ listing.blocks[2] = << <<"worktree", "feat">>, <<"locked">> >>
    /\ listing.worktrees =
          <<[path |-> "feat", commit |-> Unknown, branch |-> Detached,
             isBare |-> FALSE]>>

\* ---- findCandidates, step by step
InFlight == {p.i : p \in flight.pending}
Called == 1..(flight.next - 1)

\* C28: during findCandidates the three predicate evaluations of one
\* worktree are in progress together, and all three have completed before
\* any evaluation of the next worktree starts: evaluations of two worktrees
\* are never in flight together.  What is recorded for a worktree is what
\* its three predicates yield, in whatever order they finished.
C28_OneWorktreeAtATime ==
    Scanning =>
        /\ Cardinality(InFlight) <= 1
        /\ \A i \in Called, q \in Predicates :
              Answered(flight, i, q)
                 \/ \E p \in flight.pending : p.i = i /\ p.q = q
        /\ \A i \in InFlight :
              /\ i = flight.next - 1
              /\ flight.joined = i - 1
              /\ \A j \in 1..(i - 1), q \in Predicates :
                    Answered(flight, j, q)
        /\ Len(scan.evals) = flight.joined
        /\ \A k \in 1..Len(scan.evals) :
              scan.evals[k] = Evaluate(Store, flight.checkable[k], scan.base,
                                       flight.faults[k])

C28_Witness ==
    /\ Scanning
    /\ InFlight = {2}
    /\ Cardinality(flight.pending) = 3
    /\ flight.order = << <<1, "unpushed">>, <<1, "uncommitted">>,
                         <<1, "merged">> >>
    /\ Len(scan.evals) = 1

\* ---- hooks
HookInvoked ==
    outcome.cmd \in {"create", "checkout"} /\ outcome.hookRun # "none"

\* C29: invoking the post_create hook when the store holds no hook file is
\* a no-op success: no script is run, and create and checkout go on to
\* complete successfully.  (The one step that follows the hook is the change
\* into the new directory at the end of checkout.)
C29_AbsentHookIsNoOp ==
    /\ (HookInvoked /\ ~hookFile)
          => /\ outcome.hookRun = "absent"
             /\ ~Issued("post_create")
             /\ outcome.status # "HookFailed"
             /\ outcome.cmd = "create" => outcome.status = "ok"
             /\ outcome.cmd = "checkout"
                   => outcome.status \in {"ok", "NotFound"}
             /\ \E i \in 1..Len(registry) : registry[i].path = outcome.name
    /\ (outcome.cmd \in {"create", "checkout"} /\ ~hookFile)
          => ~Issued("post_create")

C29_Witness ==
    /\ HookInvoked
    /\ ~hookFile
    /\ outcome.cmd = "checkout"
    /\ outcome.status = "ok"
    /\ outcome.start = "existing"
    /\ outcome.hookRun = "absent"

\* ---- what a cleanup run removes
RemovedByRun ==
    {i \in 1..Len(registry) :
        ~\E j \in 1..Len(registry') : registry'[j].path = registry[i].path}

\* C30: every worktree a cleanup run removes is a member of that run's
\* deletion set, that is a candidate findCandidates returned and, in
\* interactive mode, one the user selected; a worktree that was filtered
\* out or failed a predicate is never removed, also when a candidate's
\* directory name is the branch name or the directory name of another
\* worktree.
C30_RunRemovesOnlyItsBatch ==
    [][(Idle /\ outcome'.cmd = "cleanup")
          => \A i \in RemovedByRun :
                /\ \E k \in 1..Len(batch'.toDelete) :
                      batch'.toDelete[k].path = registry[i].path
                /\ \E k \in 1..Len(scan'.candidates) :
                      scan'.candidates[k].path = registry[i].path]_vars

\* C31: a cleanup run never removes a worktree bound to a protected branch
\* (main, master, next, prerelease), whatever its options and whatever the
\* listing.
C31_RunKeepsProtected ==
    [][(Idle /\ outcome'.cmd = "cleanup")
          => \A i \in RemovedByRun : ~ProtectedEntry(registry[i])]_vars

\* C32: a candidate that gains uncommitted changes or unpushed commits
\* after findCandidates evaluated it and before run issues its removal, as
\* it can while the selection prompt is pending, is not removed by the run.
GainedWork(w) == ~TrulyClean(w) \/ ~TrulyPushed(w)

C32_ChangedCandidateIsKept ==
    [][(Prompting /\ outcome'.cmd = "cleanup" /\ ~Prompting')
          => \A i \in 1..Len(registry) :
                (IsCandidate(registry[i].path) /\ GainedWork(registry[i]))
                   => i \notin RemovedByRun]_vars

\* ---- branch synchronization
Synced ==
    /\ Idle
    /\ outcome'.cmd \in {"create", "checkout"}
    /\ sync'.status # "none"

\* C33: the synchronization of branch B during create or checkout changes
\* only the tracking ref of B: the local branch ref B, and with it the commit
\* every worktree bound to B is at, is after the command what it was before.
C33_SyncKeepsLocalBranch ==
    [][(Synced /\ heads[sync'.branch] # NoRef)
          => /\ heads'[sync'.branch] = heads[sync'.branch]
             /\ \A i \in 1..Len(registry) :
                   registry[i].branch = sync'.branch
                      => HeadOf(Store', registry[i])
                            = HeadOf(Store, registry[i])]_vars

\* ---- checkout that fails
\* C34: whenever checkout(name) fails with NotFound the store is as it was
\* before the call: no worktree has been added to the listing and no ref
\* has been changed.
C34_NotFoundLeavesStore ==
    [][(Idle /\ outcome'.cmd = "checkout" /\ outcome'.status = "NotFound")
          => /\ registry' = registry
             /\ heads' = heads
             /\ tracking' = tracking]_vars

\* ---- delete
Deleted == Idle /\ outcome'.cmd = "delete" /\ outcome'.status = "ok"

Without(reg, i) ==
    [k \in 1..(Len(reg) - 1) |-> IF k < i THEN reg[k] ELSE reg[k + 1]]

\* C35: a successful delete(name, force) removes exactly one entry of the
\* listing, one whose path ends in /name or whose branch is name; every
\* other entry and every branch ref are after it what they were before, so
\* the local branch of the removed worktree still exists.
C35_DeleteRemovesOneEntry ==
    [][Deleted
          => /\ heads' = heads
             /\ tracking' = tracking
             /\ \E i \in 1..Len(registry) :
                   /\ \/ registry[i].path = outcome'.name
                      \/ registry[i].branch = outcome'.name
                   /\ registry' = Without(registry, i)
                   /\ registry[i].branch \in DOMAIN heads
                         => heads'[registry[i].branch] # NoRef]_vars

\* A delete by branch name has removed the worktree on that branch and left
\* the directory of that name, bound to another branch, in the listing.
C35_Witness ==
    /\ outcome.cmd = "delete"
    /\ outcome.status = "ok"
    /\ heads[outcome.name] # NoRef
    /\ ~Bound(registry, outcome.name)
    /\ \E i \in 1..Len(registry) : registry[i].path = outcome.name

\* ---- the order of a cleanup run
Positions(op) == {k \in 1..Len(ops) : ops[k] = op}

\* C36: in a cleanup run the fetch of the base branch is issued exactly once
\* and before any predicate is evaluated; every evaluation is over before
\* the first removal is issued; the removals follow one another, one per
\* attempt of the batch; the prune is issued once, after the last removal
\* attempt.
C36_RunOrder ==
    (RunEnded /\ outcome.status \notin {"NotBare", "NoBaseBranch"})
        => /\ Positions("fetch") = {1}
           /\ Cardinality(Positions("evaluate")) = Len(scan.evals)
           /\ \A i \in Positions("evaluate"), j \in Positions("remove") :
                 i < j
           /\ Cardinality(Positions("remove")) <= Len(batch.attempts)
           /\ Cardinality(Positions("remove")) >= Removals(batch.attempts)
           /\ Positions("prune") \subseteq {Len(ops)}
           /\ (Positions("prune") # {}) <=> (batch.pruned # "none")
           /\ Positions("remove") # {} => Positions("prune") # {}
           /\ \A k \in 1..Len(ops) :
                 ops[k] \in {"fetch", "evaluate", "remove", "prune"}

C36_Witness ==
    /\ RunEnded
    /\ Len(scan.evals) >= 2
    /\ Len(batch.attempts) >= 2
    /\ Removals(batch.attempts) = 1
    /\ ops[Len(ops)] = "prune"

\* ---- the post_create hook
AddOp(how) ==
    CASE how = "tracking" -> "add-tracking"
      [] how = "local" -> "add-local"
      [] how = "existing" -> "add-existing"
      [] OTHER -> "none"

HookPositions(o) == {k \in 1..Len(o) : o[k] = "post_create"}

\* C37: the post_create hook is invoked only after the worktree-add of the
\* same command has succeeded, and at most once per create or checkout;
\* when the command added no worktree (guard failure, add failure, existing
\* worktree found by checkout) the hook is not invoked.
C37_HookAfterAddOnce ==
    [][(Idle /\ outcome'.cmd \in {"create", "checkout"})
          => /\ Cardinality(HookPositions(ops')) <= 1
             /\ (HookPositions(ops') # {})
                   <=> (outcome'.hookRun \in {"ran", "failed"})
             /\ outcome'.hookRun # "none"
                   => /\ outcome'.start # "none"
                      /\ Len(registry') = Len(registry) + 1
                      /\ \A k \in HookPositions(ops') :
                            \E j \in 1..(k - 1) :
                               ops'[j] = AddOp(outcome'.start)
             /\ Len(registry') = Len(registry)
                   => /\ outcome'.hookRun = "none"
                      /\ HookPositions(ops') = {}]_vars

\* checkout added the worktree of an existing branch, the hook failed, and
\* the fallback create was tried and failed: the hook ran once.
C37_Witness ==
    /\ outcome.cmd = "checkout"
    /\ outcome.status = "NotFound"
    /\ outcome.start = "existing"
    /\ outcome.hookRun = "failed"
    /\ Issued("add-tracking")
    /\ Cardinality(HookPositions(ops)) = 1

\* ---- the closing report of a cleanup run
\* C38: the number of deleted worktrees a cleanup run reports at its end
\* equals the number of worktrees whose removal succeeded in that run.
C38_ReportCountsRemovals ==
    (RunEnded /\ batch.pruned # "none")
        => batch.reported = Removals(batch.attempts)

====
